---------------------------- MODULE Spec2Model ----------------------------
(***************************************************************************)
(* Model of the real-time frame pipeline of the 3D face reconstruction     *)
(* server: server/app.py (Socket.IO handlers, process_frame run on a       *)
(* ThreadPoolExecutor), server_utils/face_detector.py (FaceDetector        *)
(* tracking state) and server_utils/logger.py (PerformanceLogger).         *)
(*                                                                         *)
(* Threads: every Socket.IO handler invocation and every pool worker is a  *)
(* thread of its own (async_mode='threading').  A step of the model is one *)
(* call on a shared object (perf_logger, face_detector, thread_pool) or a  *)
(* handler body between two such calls.                                    *)
(***************************************************************************)
EXTENDS Integers, Sequences, FiniteSets, TLC

(***************************************************************************)
(* Bounds of the model.                                                    *)
(***************************************************************************)
MaxFrames   == 3   \* inbound frame events in one run
NumSessions == 2   \* clients that may connect
MaxHandlers == 1   \* handle_frame invocations in progress at the same time
MaxStride   == 2   \* config performance.frame_skip ranges over 1..MaxStride
MaxPool     == 2   \* config performance.thread_pool_size ranges over 1..MaxPool
MaxInterval == 2   \* config performance.redetect_interval ranges over 1..MaxInterval
MaxTime     == 3   \* clock readings of the metrics scenario range over 0..MaxTime
MaxWindow   == 3   \* window sizes 1..MaxWindow besides the one app.py passes
MaxLogInterval == 2  \* log intervals 1..MaxLogInterval of the logging scenario

\* PerformanceLogger(window_size=30, ...) in initialize_components
WindowSize == 30

\* PerformanceLogger(..., log_interval=30, ...)
LogInterval == 30

Frames   == 1..MaxFrames
Sessions == 1..NumSessions

\* Python's None for a bounding box / a timestamp.
NoBox  == <<>>
NoTime == 0

\* Frame shapes (w, h) a client may send.
Sizes == { <<2, 2>>, <<4, 3>> }

\* Raw MTCNN boxes (float coordinates, in units of 1/2 pixel) with a
\* confidence >= min_confidence.
RawBoxes == { <<-3, 1, 5, 4>>, <<2, 2, 12, 12>> }

VARIABLES
    config,         \* config.yaml values read by app.py
    connected,      \* sessions with an open Socket.IO connection
    frame_counter,  \* app.py global frame_counter
    fr,             \* per inbound frame event: position of its handler / task
    queue,          \* ThreadPoolExecutor work queue (FIFO of frame ids)
    tracker,        \* FaceDetector.last_bbox, tracking_active, frames_since_detection
    logger,         \* the fields of the PerformanceLogger perf_logger
    now,            \* the latest reading of time.time()
    outbox,         \* outcome events emitted so far, in emission order
    reply,          \* metrics of the latest metrics_update / health response
    resetting       \* position of the thread running PerformanceLogger.reset

vars == <<config, connected, frame_counter, fr, queue, tracker, logger, now,
          outbox, reply, resetting>>

(***************************************************************************)
(* FaceDetector (server_utils/face_detector.py)                            *)
(***************************************************************************)
Max2(a, b) == IF a >= b THEN a ELSE b
Min2(a, b) == IF a <= b THEN a ELSE b

\* numpy astype(int) of a float given in half pixels: truncation toward zero.
AsInt(r) == IF r >= 0 THEN r \div 2 ELSE -((-r) \div 2)

\* Clamp without the lower bound: a negative coordinate is kept.
ClampNoFloor(x, n) == Min2(x, n - 1)

\* max(0, min(x, n - 1))
Clamp(x, n) == Max2(0, Min2(x, n - 1))

EmptyTracker == [last_bbox |-> NoBox, tracking_active |-> FALSE,
                 frames_since_detection |-> 0]

\* _detect_with_mtcnn: raw is NoBox when MTCNN finds nothing (or raises).
DetectWithMtcnn(raw, size) ==
    IF raw = NoBox THEN NoBox
    ELSE <<Clamp(AsInt(raw[1]), size[1]), Clamp(AsInt(raw[2]), size[2]),
           Clamp(AsInt(raw[3]), size[1]), Clamp(AsInt(raw[4]), size[2])>>

\* _track_face
TrackFace(last_bbox, size) ==
    IF last_bbox = NoBox THEN NoBox
    ELSE IF last_bbox[3] > size[1] \/ last_bbox[4] > size[2]
            \/ last_bbox[1] < 0 \/ last_bbox[2] < 0
         THEN NoBox
         ELSE last_bbox

\* should_redetect with > in place of >=.
ShouldRedetectStrict(t, redetect_interval) ==
    t.frames_since_detection > redetect_interval

ShouldRedetect(t, redetect_interval) ==
    t.frames_since_detection >= redetect_interval

\* reset_tracking that leaves frames_since_detection as it is.
ResetTrackingKeepCounter(t) ==
    [t EXCEPT !.last_bbox = NoBox, !.tracking_active = FALSE]

ResetTracking(t) ==
    [t EXCEPT !.last_bbox = NoBox, !.tracking_active = FALSE,
              !.frames_since_detection = 0]

\* detect_face takes the tracking branch and _track_face accepts the box.
TrackingHit(t, size, use_tracking) ==
    /\ use_tracking
    /\ t.tracking_active
    /\ t.last_bbox # NoBox
    /\ TrackFace(t.last_bbox, size) # NoBox

\* detect_face without its else branch: a failed detection changes nothing.
AfterDetectionKeepActive(t, bbox) ==
    IF bbox # NoBox
    THEN [t EXCEPT !.last_bbox = bbox, !.tracking_active = TRUE,
                   !.frames_since_detection = 0]
    ELSE t

\* Tracker after the full-detection branch of detect_face returned bbox.
AfterDetection(t, bbox) ==
    IF bbox # NoBox
    THEN [t EXCEPT !.last_bbox = bbox, !.tracking_active = TRUE,
                   !.frames_since_detection = 0]
    ELSE [t EXCEPT !.tracking_active = FALSE]

\* int(w * padding) with padding = 0.3
Pad(w) == IF w >= 0 THEN (3 * w) \div 10 ELSE -((3 * (-w)) \div 10)

\* extract_face_roi returns an image (TRUE) or None (FALSE: empty crop).
ExtractFaceRoi(bbox, size) ==
    LET x1 == Max2(0, bbox[1] - Pad(bbox[3] - bbox[1]))
        y1 == Max2(0, bbox[2] - Pad(bbox[4] - bbox[2]))
        x2 == Min2(size[1], bbox[3] + Pad(bbox[3] - bbox[1]))
        y2 == Min2(size[2], bbox[4] + Pad(bbox[4] - bbox[2]))
    IN  x2 > x1 /\ y2 > y1

(***************************************************************************)
(* PerformanceLogger (server_utils/logger.py).  Timestamps and durations   *)
(* are integers in units of 1/100 ms; every reading of time.time() made by *)
(* start_frame and end_frame is later than the readings before it.         *)
(* Reported latencies are in units of 1/10 ms (round(x, 1)), the reported  *)
(* fps in units of 1/100 frame per second (round(x, 2)).                   *)
(***************************************************************************)
RECURSIVE SumSeq(_)
SumSeq(w) == IF w = <<>> THEN 0 ELSE Head(w) + SumSeq(Tail(w))

RECURSIVE MinSeq(_)
MinSeq(w) == IF Len(w) = 1 THEN w[1] ELSE Min2(Head(w), MinSeq(Tail(w)))

RECURSIVE MaxSeq(_)
MaxSeq(w) == IF Len(w) = 1 THEN w[1] ELSE Max2(Head(w), MaxSeq(Tail(w)))

\* p / q without rounding to the nearest: truncation.
RoundDivDown(p, q) == p \div q

\* round(): p / q (p >= 0, q > 0) rounded to the nearest integer, a tie to
\* the even neighbour.
RoundDiv(p, q) ==
    LET d == p \div q
        r == p % q
    IN  IF 2 * r < q THEN d
        ELSE IF 2 * r > q THEN d + 1
        ELSE IF d % 2 = 0 THEN d ELSE d + 1

\* A bounded window that refuses the new sample when it is full.
PushWindowKeepOldest(w, x, n) == IF Len(w) < n THEN Append(w, x) ELSE w

\* deque(maxlen = n).append(x)
PushWindow(w, x, n) == IF Len(w) < n THEN Append(w, x) ELSE Append(Tail(w), x)

StartFrame(lg, t) == [lg EXCEPT !.start_time = t]

\* _log_metrics writes a log line (TRUE) or returns at its first test.
LogMetrics(lg) == Len(lg.processing_times) # 0

\* end_frame, lines 83-94: the sample of a success or the count of a drop.
EndFrameCount(lg, success, t) ==
    IF success
    THEN [lg EXCEPT
            !.processing_times = PushWindow(@, t - lg.start_time, lg.window_size),
            !.frame_times = PushWindow(@, t - lg.last_frame_time, lg.window_size),
            !.frame_count = @ + 1,
            !.last_frame_time = t]
    ELSE [lg EXCEPT !.dropped_frames = @ + 1, !.last_frame_time = t]

\* end_frame(success), its clock reading being t.  log_line tells whether
\* the call wrote the periodic log line.
EndFrame(lg, success, t) ==
    IF lg.start_time = NoTime THEN lg
    ELSE LET counted == EndFrameCount(lg, success, t)
         IN  [counted EXCEPT
                !.log_line = /\ counted.frame_count % counted.log_interval = 0
                             /\ LogMetrics(counted),
                !.start_time = NoTime]

\* end_frame returns at its first test: no clock reading, no update.
EndFrameIgnored(lg) == lg.start_time = NoTime

\* The k-th statement of reset(); last_log_time is not modelled.
ResetStatements == 1..5

ResetStatement(lg, k, t) ==
    CASE k = 1 -> [lg EXCEPT !.frame_times = <<>>]
      [] k = 2 -> [lg EXCEPT !.processing_times = <<>>]
      [] k = 3 -> [lg EXCEPT !.frame_count = 0]
      [] k = 4 -> [lg EXCEPT !.dropped_frames = 0]
      [] k = 5 -> [lg EXCEPT !.last_frame_time = t]

\* reset() from its k-th statement to its last.
RECURSIVE ResetFrom(_, _, _)
ResetFrom(lg, k, t) ==
    IF k \notin ResetStatements THEN lg
    ELSE ResetFrom(ResetStatement(lg, k, t), k + 1, t)

\* reset() run without interruption.
LoggerReset(lg, t) == ResetFrom(lg, 1, t)

\* get_current_metrics that reports 0 dropped frames for an empty window.
GetCurrentMetricsZeroDropped(lg) ==
    IF Len(lg.processing_times) = 0
    THEN [fps |-> 0, avg_latency |-> 0, min_latency |-> 0, max_latency |-> 0,
          dropped_frames |-> 0]
    ELSE [fps |-> IF Len(lg.frame_times) > 0
                  THEN RoundDiv(10000000 * Len(lg.frame_times), SumSeq(lg.frame_times))
                  ELSE 0,
          avg_latency |-> RoundDiv(SumSeq(lg.processing_times),
                                   10 * Len(lg.processing_times)),
          min_latency |-> RoundDiv(MinSeq(lg.processing_times), 10),
          max_latency |-> RoundDiv(MaxSeq(lg.processing_times), 10),
          dropped_frames |-> lg.dropped_frames]

\* get_current_metrics; cpu_percent and memory_percent are left out.
\* fps = round(1000 / mean(frame_times in ms), 2), in 1/100 fps.
GetCurrentMetrics(lg) ==
    IF Len(lg.processing_times) = 0
    THEN [fps |-> 0, avg_latency |-> 0, min_latency |-> 0, max_latency |-> 0,
          dropped_frames |-> lg.dropped_frames]
    ELSE [fps |-> IF Len(lg.frame_times) > 0
                  THEN RoundDiv(10000000 * Len(lg.frame_times), SumSeq(lg.frame_times))
                  ELSE 0,
          avg_latency |-> RoundDiv(SumSeq(lg.processing_times),
                                   10 * Len(lg.processing_times)),
          min_latency |-> RoundDiv(MinSeq(lg.processing_times), 10),
          max_latency |-> RoundDiv(MaxSeq(lg.processing_times), 10),
          dropped_frames |-> lg.dropped_frames]

(***************************************************************************)
(* Initial state: after initialize_components(), no client connected.      *)
(***************************************************************************)
\* PerformanceLogger(window_size, log_interval) constructed at time t.
\* log_line: the latest end_frame call wrote the periodic log line.
NewLogger(window_size, log_interval, t) ==
    [window_size |-> window_size, log_interval |-> log_interval,
     frame_times |-> <<>>, processing_times |-> <<>>,
     frame_count |-> 0, dropped_frames |-> 0, start_time |-> NoTime,
     last_frame_time |-> t, log_line |-> FALSE]

\* No metrics query answered yet; no reset() in progress.
NoReply == <<>>
NotResetting == [pc |-> 0]

\* det: the MTCNN detector was invoked for the frame being processed.
\* pred: face_model.predict was called for the frame.
\* orphan: the session of the frame disconnected while the frame was in flight.
\* t0: the clock reading of the start_frame call made for the frame.
NewFrame == [pc |-> "new", session |-> 0, idx |-> 0, size |-> <<0, 0>>,
             bbox |-> NoBox, det |-> FALSE, pred |-> FALSE, orphan |-> FALSE,
             t0 |-> NoTime]

Init ==
    /\ config \in [frame_skip : 1..MaxStride,
                   thread_pool_size : 1..MaxPool,
                   enable_tracking : BOOLEAN,
                   redetect_interval : 1..MaxInterval]
    /\ connected = {}
    /\ frame_counter = 0
    /\ fr = [f \in Frames |-> NewFrame]
    /\ queue = <<>>
    /\ tracker = EmptyTracker
    /\ logger = NewLogger(WindowSize, LogInterval, 0)
    /\ now = 0
    /\ outbox = <<>>
    /\ reply = NoReply
    /\ resetting = NotResetting

\* Frames handed to the pool and not yet completed.
\* Positions inside detect_face (the tracking scenario runs it statement by
\* statement) and in the except branch of process_frame.
DetectFacePcs == {"track", "unpack", "validate", "count", "mtcnn",
                  "store_bbox", "store_active", "store_count", "deactivate"}
WorkerPcs == {"redetect", "detect", "infer", "raised"} \cup DetectFacePcs
InFlightPcs == {"queued"} \cup WorkerPcs
\* A pool whose threads are not given back when process_frame returns.
RunningNeverReleased == {f \in Frames : fr[f].pc \in WorkerPcs \cup {"done"}}

Running == {f \in Frames : fr[f].pc \in WorkerPcs}
InFlight == {f \in Frames : fr[f].pc \in InFlightPcs}

\* An outcome event and the frame event it answers.
Event(ev, f) == [ev |-> ev, frame |-> f]

\* mesh_update{vertices, faces, metrics, face_detected} answering frame f.
MeshUpdate(f, metrics) == [ev |-> "mesh_update", frame |-> f, metrics |-> metrics]

(***************************************************************************)
(* Socket.IO handlers (server/app.py)                                      *)
(***************************************************************************)
HandleConnect(s) ==
    /\ s \notin connected
    /\ connected' = connected \cup {s}
    /\ UNCHANGED <<config, frame_counter, fr, queue, tracker, logger, now,
                   outbox, reply, resetting>>

\* handle_disconnect; the frames of s that are in flight lose their client.
HandleDisconnect(s) ==
    /\ s \in connected
    /\ connected' = connected \ {s}
    /\ tracker' = ResetTracking(tracker)
    /\ fr' = [f \in Frames |->
                IF fr[f].session = s /\ fr[f].pc \in InFlightPcs
                THEN [fr[f] EXCEPT !.orphan = TRUE]
                ELSE fr[f]]
    /\ UNCHANGED <<config, frame_counter, queue, logger, now, outbox, reply,
                   resetting>>

HandleRecalibrate(s) ==
    /\ s \in connected
    /\ tracker' = ResetTracking(tracker)
    /\ UNCHANGED <<config, connected, frame_counter, fr, queue, logger, now,
                   outbox, reply, resetting>>

\* handle_reset_metrics, reset() running without interruption.
HandleResetMetrics(s) ==
    /\ s \in connected
    /\ resetting = NotResetting
    /\ logger' = LoggerReset(logger, now)
    /\ UNCHANGED <<config, connected, frame_counter, fr, queue, tracker, now,
                   outbox, reply, resetting>>

\* handle_get_metrics that clears the metrics it has just reported.
HandleGetMetricsAndReset(s) ==
    /\ s \in connected
    /\ reply' = GetCurrentMetrics(logger)
    /\ logger' = LoggerReset(logger, now)
    /\ UNCHANGED <<config, connected, frame_counter, fr, queue, tracker, now,
                   outbox, resetting>>

\* handle_get_metrics: emit('metrics_update', get_current_metrics())
HandleGetMetrics(s) ==
    /\ s \in connected
    /\ reply' = GetCurrentMetrics(logger)
    /\ UNCHANGED <<config, connected, frame_counter, fr, queue, tracker, logger,
                   now, outbox, resetting>>

\* GET /health: the 'metrics' entry of the response.
Health ==
    /\ reply' = GetCurrentMetrics(logger)
    /\ UNCHANGED <<config, connected, frame_counter, fr, queue, tracker, logger,
                   now, outbox, resetting>>

\* perf_logger.end_frame(success) called from a handler or a worker; the
\* clock is read, one unit later than the latest reading, unless the call
\* returns at its first test.
PerfEndFrame(success) ==
    /\ logger' = EndFrame(logger, success, now + 1)
    /\ now' = IF EndFrameIgnored(logger) THEN now ELSE now + 1

\* handle_frame, line 157: perf_logger.start_frame()
HandleFrameStart(s, f) ==
    /\ s \in connected
    /\ fr[f].pc = "new"
    /\ \A g \in Frames : g < f => fr[g].pc # "new"
    /\ Cardinality({g \in Frames : fr[g].pc = "started"}) < MaxHandlers
    /\ fr' = [fr EXCEPT ![f].pc = "started", ![f].session = s,
                        ![f].t0 = now + 1]
    /\ logger' = StartFrame(logger, now + 1)
    /\ now' = now + 1
    /\ UNCHANGED <<config, connected, frame_counter, queue, tracker, outbox,
                   reply, resetting>>

\* handle_frame, lines 159-191: the admission test, decoding, submit.
\* payload: "image" decodes to a frame of shape size, "undecodable" makes
\* the decoder return None, "invalid" is neither a dict with an image nor bytes.
HandleFrameBody(f, payload, size) ==
    /\ fr[f].pc = "started"
    /\ frame_counter' = frame_counter + 1
    /\ IF frame_counter' % config.frame_skip # 0
       THEN /\ fr' = [fr EXCEPT ![f].pc = "skipped", ![f].idx = frame_counter',
                                ![f].t0 = NoTime]
            /\ PerfEndFrame(FALSE)
            /\ UNCHANGED <<queue, outbox>>
       ELSE CASE payload = "invalid" ->
                 /\ fr' = [fr EXCEPT ![f].pc = "invalid", ![f].idx = frame_counter',
                                ![f].t0 = NoTime]
                 /\ PerfEndFrame(FALSE)
                 /\ UNCHANGED <<queue, outbox>>
              [] payload = "undecodable" ->
                 /\ fr' = [fr EXCEPT ![f].pc = "undecodable", ![f].idx = frame_counter',
                                ![f].t0 = NoTime]
                 /\ PerfEndFrame(FALSE)
                 /\ outbox' = Append(outbox, Event("error", f))
                 /\ UNCHANGED queue
              [] payload = "image" ->
                 /\ fr' = [fr EXCEPT ![f].pc = "queued", ![f].idx = frame_counter',
                                     ![f].size = size]
                 /\ queue' = Append(queue, f)
                 /\ UNCHANGED <<logger, now, outbox>>
    /\ UNCHANGED <<config, connected, tracker, reply, resetting>>

(***************************************************************************)
(* ThreadPoolExecutor(max_workers = thread_pool_size) running process_frame *)
(***************************************************************************)
\* An idle worker thread takes the oldest queued work item.
WorkerTake ==
    /\ queue # <<>>
    /\ Cardinality(Running) < config.thread_pool_size
    /\ fr' = [fr EXCEPT ![Head(queue)].pc = "redetect"]
    /\ queue' = Tail(queue)
    /\ UNCHANGED <<config, connected, frame_counter, tracker, logger, now,
                   outbox, reply, resetting>>

\* process_frame, lines 209-210
ProcessRedetect(f) ==
    /\ fr[f].pc = "redetect"
    /\ tracker' = IF config.enable_tracking
                     /\ ShouldRedetect(tracker, config.redetect_interval)
                  THEN ResetTracking(tracker)
                  ELSE tracker
    /\ fr' = [fr EXCEPT ![f].pc = "detect"]
    /\ UNCHANGED <<config, connected, frame_counter, queue, logger, now, outbox,
                   reply, resetting>>

\* process_frame, line 212: face_detector.detect_face(frame, use_tracking)
ProcessDetect(f, raw) ==
    /\ fr[f].pc = "detect"
    /\ IF TrackingHit(tracker, fr[f].size, config.enable_tracking)
       THEN /\ tracker' = [tracker EXCEPT !.frames_since_detection = @ + 1]
            /\ fr' = [fr EXCEPT ![f].pc = "infer",
                                ![f].bbox = TrackFace(tracker.last_bbox, fr[f].size)]
       ELSE /\ tracker' = AfterDetection(tracker, DetectWithMtcnn(raw, fr[f].size))
            /\ fr' = [fr EXCEPT ![f].pc = "infer", ![f].det = TRUE,
                                ![f].bbox = DetectWithMtcnn(raw, fr[f].size)]
    /\ UNCHANGED <<config, connected, frame_counter, queue, logger, now, outbox,
                   reply, resetting>>

\* process_frame, lines 214-265, with a success sample for a failed
\* prediction as well.
InferOutcomeCountsError(bbox, size, mesh) ==
    IF bbox = NoBox \/ ~ExtractFaceRoi(bbox, size)
    THEN [ev |-> "no_face", predict |-> FALSE, success |-> FALSE]
    ELSE IF ~mesh
    THEN [ev |-> "error", predict |-> TRUE, success |-> TRUE]
    ELSE [ev |-> "mesh_update", predict |-> TRUE, success |-> TRUE]

\* process_frame, lines 214-265, for a frame whose detect_face returned
\* bbox: the event emitted, whether face_model.predict is called, and the
\* flag passed to end_frame.  mesh is the result of predict (TRUE: a mesh,
\* FALSE: None).
InferOutcome(bbox, size, mesh) ==
    IF bbox = NoBox \/ ~ExtractFaceRoi(bbox, size)
    THEN [ev |-> "no_face", predict |-> FALSE, success |-> FALSE]
    ELSE IF ~mesh
    THEN [ev |-> "error", predict |-> TRUE, success |-> FALSE]
    ELSE [ev |-> "mesh_update", predict |-> TRUE, success |-> TRUE]

\* The frame buffer and the local bbox are dropped when process_frame
\* returns; pred records that predict was called.
Finished(f, pred) ==
    [fr EXCEPT ![f].pc = "done", ![f].size = <<0, 0>>, ![f].bbox = NoBox,
               ![f].det = FALSE, ![f].pred = pred, ![f].orphan = FALSE,
               ![f].t0 = NoTime]

\* process_frame, lines 214-265; socketio.emit sends to every connected
\* client, the metrics of a mesh_update are read before end_frame(True).
ProcessInfer(f, mesh) ==
    /\ fr[f].pc = "infer"
    /\ LET o == InferOutcome(fr[f].bbox, fr[f].size, mesh)
       IN  /\ outbox' = Append(outbox,
                   IF o.ev = "mesh_update"
                   THEN MeshUpdate(f, GetCurrentMetrics(logger))
                   ELSE Event(o.ev, f))
           /\ PerfEndFrame(o.success)
           /\ fr' = Finished(f, o.predict)
    /\ UNCHANGED <<config, connected, frame_counter, queue, tracker, reply,
                   resetting>>

\* Every step of the frame pipeline, the clients being those of S.
NextOf(S) ==
    \/ \E s \in S : HandleConnect(s)
    \/ \E s \in S : HandleDisconnect(s)
    \/ \E s \in S : HandleRecalibrate(s)
    \/ \E s \in S : HandleResetMetrics(s)
    \/ \E s \in S, f \in Frames : HandleFrameStart(s, f)
    \/ \E f \in Frames, p \in {"image", "undecodable", "invalid"}, z \in Sizes :
            HandleFrameBody(f, p, z)
    \/ WorkerTake
    \/ \E f \in Frames : ProcessRedetect(f)
    \/ \E f \in Frames, raw \in RawBoxes \cup {NoBox} : ProcessDetect(f, raw)
    \/ \E f \in Frames, mesh \in BOOLEAN : ProcessInfer(f, mesh)

Next == NextOf(Sessions)

Spec == Init /\ [][Next]_vars

\* One client, every configuration.
NextSolo == NextOf({1})

SpecSolo == Init /\ [][NextSolo]_vars

\* Every client, one worker, tracking disabled, every stride.
InitDuo ==
    /\ Init
    /\ config.thread_pool_size = 1
    /\ ~config.enable_tracking
    /\ config.redetect_interval = 1

SpecDuo == InitDuo /\ [][Next]_vars

(***************************************************************************)
(* The metrics scenario: perf_logger as its callers drive it.  The frame   *)
(* pipeline is reduced to the calls it makes on perf_logger (start_frame   *)
(* from handle_frame, end_frame from handle_frame and process_frame), each *)
(* with a clock reading d units after the latest one; reset() runs one     *)
(* statement at a time, so the other threads run between its statements.   *)
(***************************************************************************)
\* Samples (processing time, frame interval) of frames processed before:
\* 10, 20, 30 ms at 100 ms intervals and 10.04 ms after 150 ms.
Samples == { <<1000, 10000>>, <<2000, 10000>>, <<3000, 10000>>, <<1004, 15000>> }

RECURSIVE SeqsUpTo(_, _)
SeqsUpTo(S, n) ==
    IF n = 0 THEN { <<>> }
    ELSE SeqsUpTo(S, n - 1)
         \cup { Append(w, x) : w \in { v \in SeqsUpTo(S, n - 1) : Len(v) = n - 1 },
                               x \in S }

\* A tracker that follows a face since one frame.
SomeTracking == [last_bbox |-> <<0, 0, 1, 1>>, tracking_active |-> TRUE,
                 frames_since_detection |-> 1]

\* A server that has processed frames before: the window holds up to
\* MaxWindow samples, one client is or is not connected.
InitMetrics ==
    /\ config = [frame_skip |-> 1, thread_pool_size |-> 1,
                 enable_tracking |-> TRUE, redetect_interval |-> MaxInterval]
    /\ connected = {}
    /\ fr = [f \in Frames |-> NewFrame]
    /\ queue = <<>>
    /\ tracker \in {EmptyTracker, SomeTracking}
    /\ now = 0
    /\ outbox = <<>>
    /\ reply = NoReply
    /\ resetting = NotResetting
    /\ \E n \in (1..MaxWindow) \cup {WindowSize}, d \in 0..1 :
       \E w \in SeqsUpTo(Samples, Min2(n, MaxWindow)) :
          /\ logger = [NewLogger(n, LogInterval, 0) EXCEPT
                         !.processing_times = [i \in 1..Len(w) |-> w[i][1]],
                         !.frame_times = [i \in 1..Len(w) |-> w[i][2]],
                         !.frame_count = Len(w),
                         !.dropped_frames = d]
          /\ frame_counter = Len(w) + d

\* A call of another thread while reset() is between two statements.
Disturbed(r) == IF r.pc = 0 THEN r ELSE [r EXCEPT !.clean = FALSE]

\* perf_logger.start_frame() called by a handle_frame thread.
CallStartFrame(d) ==
    /\ now + d <= MaxTime
    /\ logger' = StartFrame(logger, now + d)
    /\ now' = now + d
    /\ resetting' = Disturbed(resetting)
    /\ UNCHANGED <<config, connected, frame_counter, fr, queue, tracker, outbox,
                   reply>>

\* perf_logger.end_frame(success) called by a handle_frame or worker thread.
CallEndFrame(success, d) ==
    /\ now + d <= MaxTime
    /\ ~EndFrameIgnored(logger)
    /\ logger' = EndFrame(logger, success, now + d)
    /\ now' = now + d
    /\ resetting' = Disturbed(resetting)
    /\ UNCHANGED <<config, connected, frame_counter, fr, queue, tracker, outbox,
                   reply>>

\* handle_reset_metrics: the first statement of perf_logger.reset().
\* from keeps the logger as reset() found it.
ResetBegin(s) ==
    /\ s \in connected
    /\ resetting = NotResetting
    /\ logger' = ResetStatement(logger, 1, now)
    /\ resetting' = [pc |-> 2, from |-> logger, clean |-> TRUE]
    /\ UNCHANGED <<config, connected, frame_counter, fr, queue, tracker, now,
                   outbox, reply>>

\* The next statement of the reset() in progress.
ResetContinue ==
    /\ resetting # NotResetting
    /\ logger' = ResetStatement(logger, resetting.pc, now)
    /\ resetting' = IF resetting.pc + 1 \in ResetStatements
                    THEN [resetting EXCEPT !.pc = @ + 1]
                    ELSE NotResetting
    /\ UNCHANGED <<config, connected, frame_counter, fr, queue, tracker, now,
                   outbox, reply>>

NextMetrics ==
    \/ HandleConnect(1)
    \/ HandleDisconnect(1)
    \/ HandleGetMetrics(1)
    \/ Health
    \/ \E d \in 1..MaxTime : CallStartFrame(d)
    \/ \E ok \in BOOLEAN, d \in 1..MaxTime : CallEndFrame(ok, d)
    \/ ResetBegin(1)
    \/ ResetContinue

SpecMetrics == InitMetrics /\ [][NextMetrics]_vars

\* The logging scenario: the metrics scenario for a logger that writes its
\* log line at every frame or at every second frame, and has counted up to
\* two successes and up to one drop before.
InitLog ==
    /\ config = [frame_skip |-> 1, thread_pool_size |-> 1,
                 enable_tracking |-> TRUE, redetect_interval |-> MaxInterval]
    /\ connected = {}
    /\ fr = [f \in Frames |-> NewFrame]
    /\ queue = <<>>
    /\ tracker = EmptyTracker
    /\ now = 0
    /\ outbox = <<>>
    /\ reply = NoReply
    /\ resetting = NotResetting
    /\ \E k \in 1..MaxLogInterval, d \in 0..1 :
       \E w \in SeqsUpTo(Samples, 2) :
          /\ logger = [NewLogger(WindowSize, k, 0) EXCEPT
                         !.processing_times = [i \in 1..Len(w) |-> w[i][1]],
                         !.frame_times = [i \in 1..Len(w) |-> w[i][2]],
                         !.frame_count = Len(w),
                         !.dropped_frames = d]
          /\ frame_counter = Len(w) + d

SpecLog == InitLog /\ [][NextMetrics]_vars

(***************************************************************************)
(* Steps of a frame, read off a pair of states.                            *)
(***************************************************************************)
\* Frames whose handler has passed the admission test with the given result.
Handled(f) == fr[f].idx > 0
Admitted(f) == Handled(f) /\ fr[f].pc # "skipped"

\* handle_frame(f) returns at the frame-skip test in this step.
SkipStep(f) == fr[f].pc = "started" /\ fr'[f].pc = "skipped"

\* handle_frame(f) runs its body in this step.
BodyStep(f) == fr[f].pc = "started" /\ fr'[f].pc # "started"

\* process_frame(f) runs lines 209-210 in this step.
RedetectStep(f) == fr[f].pc = "redetect" /\ fr'[f].pc = "detect"

\* detect_face returns for f in this step.
DetectStep(f) == fr[f].pc = "detect" /\ fr'[f].pc = "infer"

(***************************************************************************)
(* C1: in every reachable state every session has at most one frame in     *)
(* flight (submitted to the pool and not yet completed).                   *)
(***************************************************************************)
C1_OneInFlightPerSession ==
    \A s \in Sessions :
        Cardinality({f \in InFlight : fr[f].session = s}) <= 1

(***************************************************************************)
(* C2: counting only the inbound frames of its own session, a frame is     *)
(* admitted iff its index i satisfies i mod S = 0, whatever arrives on     *)
(* other sessions in between.                                              *)
(***************************************************************************)
SessionIndex(f) ==
    Cardinality({g \in Frames : /\ Handled(g)
                                /\ fr[g].session = fr[f].session
                                /\ fr[g].idx <= fr[f].idx})

C2_PerSessionStride ==
    \A f \in Frames :
        Handled(f) => (Admitted(f) <=> SessionIndex(f) % config.frame_skip = 0)

(***************************************************************************)
(* C3: a frame rejected by the admission policy causes no detector call    *)
(* and no tracking change, is never handed to a worker afterwards, and is  *)
(* counted as one dropped frame.                                           *)
(***************************************************************************)
C3_SkipIsDroppedOnce ==
    [][\A f \in Frames :
          /\ SkipStep(f) =>
                /\ tracker' = tracker
                /\ queue' = queue
                /\ ~fr'[f].det
                /\ logger'.dropped_frames = logger.dropped_frames + 1
          /\ fr[f].pc = "skipped" => fr'[f].pc = "skipped"]_vars

(***************************************************************************)
(* C4: a frame handled while an earlier frame of the same session is still *)
(* in flight is dropped and counted as a skip; it is not queued.           *)
(***************************************************************************)
C4_BusySessionDrops ==
    [][\A f \in Frames :
          (/\ BodyStep(f)
           /\ \E g \in InFlight : fr[g].session = fr[f].session)
          => /\ fr'[f].pc \notin InFlightPcs
             /\ logger'.dropped_frames = logger.dropped_frames + 1]_vars

(***************************************************************************)
(* C5: the frames accepted by the dispatcher and not yet completed         *)
(* (running plus waiting) never outnumber the workers of the pool.         *)
(***************************************************************************)
C5_PendingBounded == Cardinality(InFlight) <= config.thread_pool_size

(***************************************************************************)
(* C6: the outcomes of two processed frames of one session are emitted in  *)
(* the order in which the frames were admitted.                            *)
(***************************************************************************)
C6_OutcomesInAdmissionOrder ==
    \A i, j \in 1..Len(outbox) :
        (/\ i < j
         /\ fr[outbox[i].frame].pc = "done"
         /\ fr[outbox[j].frame].pc = "done"
         /\ fr[outbox[i].frame].session = fr[outbox[j].frame].session)
        => fr[outbox[i].frame].idx < fr[outbox[j].frame].idx

(***************************************************************************)
(* C7: a successful detection stores the detected box, activates tracking  *)
(* and zeroes frames_since_detection; a frame served by tracking reuse     *)
(* returns the stored box and adds exactly 1 to the counter; the forced    *)
(* reset of process_frame happens iff the counter is >= the redetect       *)
(* interval R, which the counter first satisfies when it equals R.         *)
(***************************************************************************)
C7_TrackerTransitions ==
    [][\A f \in Frames :
          /\ (DetectStep(f) /\ fr'[f].det /\ fr'[f].bbox # NoBox) =>
                tracker' = [last_bbox |-> fr'[f].bbox, tracking_active |-> TRUE,
                            frames_since_detection |-> 0]
          /\ (DetectStep(f) /\ ~fr'[f].det) =>
                /\ fr'[f].bbox = tracker.last_bbox
                /\ tracker' = [tracker EXCEPT !.frames_since_detection = @ + 1]
                /\ (/\ tracker'.frames_since_detection >= config.redetect_interval
                    /\ tracker.frames_since_detection < config.redetect_interval)
                   => tracker'.frames_since_detection = config.redetect_interval
          /\ (RedetectStep(f) /\ config.enable_tracking) =>
                IF tracker.frames_since_detection >= config.redetect_interval
                THEN tracker' = EmptyTracker
                ELSE tracker' = tracker]_vars

\* Tracking is active and the counter has reached the redetect interval.
C7_Witness ==
    /\ config.enable_tracking
    /\ tracker.tracking_active
    /\ tracker.last_bbox # NoBox
    /\ tracker.frames_since_detection = config.redetect_interval
    /\ \E f \in Frames : fr[f].pc = "redetect"

(***************************************************************************)
(* C8: recalibrate is enabled for every connected client in every state;   *)
(* reset_tracking (by recalibrate or disconnect) always leaves the empty   *)
(* tracker, and resetting again changes nothing.                           *)
(***************************************************************************)
ResetStep ==
    \E s \in Sessions : HandleRecalibrate(s) \/ HandleDisconnect(s)

C8_ResetToEmpty ==
    /\ [](\A s \in connected : ENABLED HandleRecalibrate(s))
    /\ [][ResetStep => /\ tracker' = EmptyTracker
                       /\ ResetTracking(tracker') = tracker']_vars

\* The tracker is empty although a frame being processed holds a box that
\* detection stored: a reset has hit a tracker in the TRACKING state.
C8_Witness ==
    /\ tracker = EmptyTracker
    /\ \E f \in Frames : fr[f].pc = "infer" /\ fr[f].det /\ fr[f].bbox # NoBox

(***************************************************************************)
(* C9 as claimed: after a detector call that finds no face the tracker is  *)
(* the empty tracker (no box, inactive, counter 0).                        *)
(***************************************************************************)
DetectFailStep(f) == DetectStep(f) /\ fr'[f].bbox = NoBox

C9_FailureClearsAll ==
    [][\A f \in Frames : DetectFailStep(f) => tracker' = EmptyTracker]_vars

(***************************************************************************)
(* C9 amended: after a detector call that finds no face tracking is        *)
(* inactive, the stored box and the counter being left as they were; and   *)
(* a detect_face call made while tracking is inactive invokes the detector *)
(* and returns what it found, never the stored box.                        *)
(***************************************************************************)
C9_FailureDeactivates ==
    [][\A f \in Frames :
          /\ DetectFailStep(f) =>
                /\ fr'[f].det
                /\ tracker' = [tracker EXCEPT !.tracking_active = FALSE]
          /\ (DetectStep(f) /\ ~tracker.tracking_active) =>
                /\ fr'[f].det
                /\ fr'[f].bbox # NoBox => tracker'.frames_since_detection = 0]_vars

\* A failed detection has left a stale box behind an inactive tracker.
C9_Witness ==
    /\ ~tracker.tracking_active
    /\ tracker.last_bbox # NoBox
    /\ \E f \in Frames : fr[f].pc = "infer" /\ fr[f].det /\ fr[f].bbox = NoBox

(***************************************************************************)
(* C10: the box returned by a successful detection is the box stored, and  *)
(* tracking reuse validated against the same frame shape returns it        *)
(* unchanged.                                                              *)
(***************************************************************************)
C10_DetectedBoxRoundTrip ==
    [][\A f \in Frames :
          (DetectStep(f) /\ fr'[f].det /\ fr'[f].bbox # NoBox) =>
             /\ tracker'.last_bbox = fr'[f].bbox
             /\ TrackingHit(tracker', fr[f].size, TRUE)
             /\ TrackFace(tracker'.last_bbox, fr[f].size) = fr'[f].bbox]_vars

\* A detected box that clamping changed is stored and held by its frame.
C10_Witness ==
    \E f \in Frames :
        /\ fr[f].pc = "infer" /\ fr[f].det
        /\ tracker.tracking_active
        /\ tracker.last_bbox = fr[f].bbox
        /\ fr[f].bbox = <<0, 0, 1, 1>>

(***************************************************************************)
(* Metrics read off a state or a pair of states.                           *)
(***************************************************************************)
\* The dictionary get_current_metrics returns for an empty window when the
\* dropped counter is d.
ZeroMetrics(d) == [fps |-> 0, avg_latency |-> 0, min_latency |-> 0,
                   max_latency |-> 0, dropped_frames |-> d]

\* process_frame(f) returns in this step.
InferStep(f) == fr[f].pc = "infer" /\ fr'[f].pc = "done"

\* The event emitted last.
LastEvent(box) == box[Len(box)]

(***************************************************************************)
(* C11 as stated: whenever the metrics window holds no samples, the        *)
(* snapshot is fps = 0, avg/min/max latency = 0 and dropped count = 0.     *)
(***************************************************************************)
C11_EmptyWindowAllZero ==
    Len(logger.processing_times) = 0
        => GetCurrentMetrics(logger) = ZeroMetrics(0)

(***************************************************************************)
(* C11: whenever the metrics window holds no samples, the snapshot is      *)
(* fps = 0, avg/min/max latency = 0 and the dropped count is the running   *)
(* total of the logger; this is also what a mesh_update carries when its   *)
(* snapshot is taken from an empty window.                                 *)
(***************************************************************************)
C11_EmptyWindowSnapshot ==
    /\ [](Len(logger.processing_times) = 0
            => GetCurrentMetrics(logger) = ZeroMetrics(logger.dropped_frames))
    /\ [][\A f \in Frames :
            (/\ InferStep(f)
             /\ LastEvent(outbox').ev = "mesh_update"
             /\ Len(logger.processing_times) = 0)
            => LastEvent(outbox').metrics = ZeroMetrics(logger.dropped_frames)]_vars

\* A mesh_update was emitted whose snapshot of the empty window reports one
\* dropped frame.
C11_Witness ==
    \E i \in 1..Len(outbox) :
        /\ outbox[i].ev = "mesh_update"
        /\ outbox[i].metrics = ZeroMetrics(1)

\* A metrics query (get_metrics event or GET /health) is answered in this step.
QueryStep == (\E s \in Sessions : HandleGetMetrics(s)) \/ Health

\* The window holds n >= 1 samples: a processing time and a frame interval each.
HoldsSamples(lg) ==
    Len(lg.processing_times) > 0 /\ Len(lg.frame_times) = Len(lg.processing_times)

Abs(x) == IF x >= 0 THEN x ELSE -x

(***************************************************************************)
(* C12 as stated: for a non-empty window the snapshot reports exactly the  *)
(* mean, the minimum and the maximum of the processing times of the window *)
(* and exactly 1000 / (mean of its frame intervals in ms) as fps.          *)
(***************************************************************************)
C12_ExactStatistics ==
    [][(QueryStep /\ HoldsSamples(logger)) =>
          LET n == Len(logger.processing_times)
          IN  /\ reply'.avg_latency * 10 * n = SumSeq(logger.processing_times)
              /\ reply'.min_latency * 10 = MinSeq(logger.processing_times)
              /\ reply'.max_latency * 10 = MaxSeq(logger.processing_times)
              /\ reply'.fps * SumSeq(logger.frame_times) = 10000000 * n]_vars

(***************************************************************************)
(* C12: for a window of n >= 1 samples the snapshot reports the mean, the  *)
(* minimum and the maximum of the processing times each rounded to the     *)
(* nearest 0.1 ms, and 1000 / (mean frame interval in ms) rounded to the   *)
(* nearest 0.01 as fps; processing times 10, 20, 30 ms at intervals of     *)
(* 100 ms give avg 20.0, min 10.0, max 30.0, fps 10.00.                    *)
(***************************************************************************)
C12_RoundedStatistics ==
    [][(QueryStep /\ HoldsSamples(logger)) =>
          LET n == Len(logger.processing_times)
              sumF == SumSeq(logger.frame_times)
          IN  /\ 2 * Abs(reply'.avg_latency * 10 * n - SumSeq(logger.processing_times))
                    <= 10 * n
              /\ 2 * Abs(reply'.min_latency * 10 - MinSeq(logger.processing_times)) <= 10
              /\ 2 * Abs(reply'.max_latency * 10 - MaxSeq(logger.processing_times)) <= 10
              /\ 2 * Abs(reply'.fps * sumF - 10000000 * n) <= sumF
              /\ reply'.dropped_frames = logger.dropped_frames
              /\ (/\ logger.processing_times = <<1000, 2000, 3000>>
                  /\ logger.frame_times = <<10000, 10000, 10000>>)
                 => /\ reply'.avg_latency = 200
                    /\ reply'.min_latency = 100
                    /\ reply'.max_latency = 300
                    /\ reply'.fps = 1000]_vars

\* The snapshot of the window 10, 20, 30 ms at 100 ms intervals was returned.
C12_Witness ==
    /\ logger.processing_times = <<1000, 2000, 3000>>
    /\ logger.frame_times = <<10000, 10000, 10000>>
    /\ reply # NoReply
    /\ reply.avg_latency = 200 /\ reply.min_latency = 100
    /\ reply.max_latency = 300 /\ reply.fps = 1000

\* handle_reset_metrics runs in this step.
ResetMetricsStep == \E s \in Sessions : HandleResetMetrics(s)

\* process_frame(f) returns in this step after a detection or inference
\* failure (no_face or error emitted).
FailStep(f) == InferStep(f) /\ LastEvent(outbox').ev # "mesh_update"

(***************************************************************************)
(* C13: the dropped count never decreases in a step that is not a reset of *)
(* the metrics, and it increases by exactly 1 in every step in which a     *)
(* frame is skipped by the admission test or a processed frame ends in a   *)
(* detection or inference failure.                                         *)
(***************************************************************************)
C13_DroppedRunningTotal ==
    [][/\ ~ResetMetricsStep => logger'.dropped_frames >= logger.dropped_frames
       /\ \A f \in Frames :
            (SkipStep(f) \/ FailStep(f))
            => logger'.dropped_frames = logger.dropped_frames + 1]_vars

\* reset() is between two of its statements and no other thread has
\* called the logger since it began.
ResetUndisturbed == resetting # NotResetting /\ resetting.clean

(***************************************************************************)
(* C14: a snapshot taken while reset() is running equals the snapshot of   *)
(* the metrics as reset() found them or the snapshot of the fully reset    *)
(* metrics: it never shows some of the window/counter fields cleared and   *)
(* others not.                                                             *)
(***************************************************************************)
C14_ResetAtomicForSnapshot ==
    [][(QueryStep /\ ResetUndisturbed) =>
          reply' \in { GetCurrentMetrics(resetting.from),
                       GetCurrentMetrics(LoggerReset(resetting.from, now)) }]_vars

\* A call of perf_logger.end_frame made for frame f completes in this step:
\* from handle_frame (skip, invalid or undecodable payload) or from
\* process_frame.
EndFrameCallStep(f) ==
    \/ BodyStep(f) /\ fr'[f].pc \in {"skipped", "invalid", "undecodable"}
    \/ InferStep(f)

(***************************************************************************)
(* C15: every completed end_frame call, made by a handler or by a worker,  *)
(* adds exactly 1 to success count + dropped count (no update is lost), so *)
(* that after n calls without a reset the sum is n; and the window of      *)
(* processing times and the window of frame intervals always have the same *)
(* length.                                                                 *)
(***************************************************************************)
C15_NoLostUpdate ==
    /\ [](Len(logger.processing_times) = Len(logger.frame_times))
    /\ [][\A f \in Frames :
            EndFrameCallStep(f)
            => logger'.frame_count + logger'.dropped_frames
                  = logger.frame_count + logger.dropped_frames + 1]_vars

(***************************************************************************)
(* C16: when process_frame completes a frame whose session disconnected    *)
(* while the frame was in flight, no outcome event is emitted for it.      *)
(***************************************************************************)
C16_NoEmitAfterDisconnect ==
    [][\A f \in Frames :
          (InferStep(f) /\ fr[f].orphan) => outbox' = outbox]_vars

\* Frame f fails in this step for a reason other than the admission test:
\* invalid or undecodable payload in handle_frame, no face / empty crop /
\* failed prediction in process_frame.
FailedNow(f) ==
    \/ BodyStep(f) /\ fr'[f].pc \in {"invalid", "undecodable"}
    \/ FailStep(f)

(***************************************************************************)
(* C17: a frame that fails for a reason other than the admission test      *)
(* (invalid or undecodable payload, no face, failed prediction) produces   *)
(* in the step of its failure exactly one outbound error or no_face event  *)
(* for that frame and adds one to the dropped count.                       *)
(***************************************************************************)
C17_FailureEmitsOnce ==
    [][\A f \in Frames :
          FailedNow(f) =>
             /\ Len(outbox') = Len(outbox) + 1
             /\ LastEvent(outbox').frame = f
             /\ LastEvent(outbox').ev \in {"error", "no_face"}
             /\ logger'.dropped_frames = logger.dropped_frames + 1]_vars

\* The positions of outbox that hold an event answering frame f.
EventsOf(f) == {i \in 1..Len(outbox) : outbox[i].frame = f}

C19_QueryReadsOnly ==
    [][reply' # reply =>
          /\ reply' = GetCurrentMetrics(logger)
          /\ logger' = logger
          /\ frame_counter' = frame_counter
          /\ tracker' = tracker]_vars

\* A query was answered while a face is being tracked, frames have been
\* counted, and the window holds samples and drops were counted.
C19_Witness ==
    /\ reply # NoReply
    /\ reply = GetCurrentMetrics(logger)
    /\ tracker = SomeTracking
    /\ frame_counter > 0
    /\ Len(logger.processing_times) > 0
    /\ logger.dropped_frames > 0

\* The tracking state is the one a frame of session b has just established:
\* that frame ran the detector, got the stored box, and is still running.
OwnsTracking(b) ==
    /\ tracker.tracking_active
    /\ \E f \in Frames : /\ fr[f].session = b
                         /\ fr[f].pc = "infer"
                         /\ fr[f].det
                         /\ fr[f].bbox = tracker.last_bbox

(***************************************************************************)
(* C20: a recalibrate or disconnect event of session a leaves unchanged    *)
(* the tracking state (stored box, active flag, frames_since_detection)    *)
(* that a frame of another connected session b has established.           *)
(***************************************************************************)
C20_ResetOnlyOwnSession ==
    [][\A a, b \in Sessions :
          (/\ a # b
           /\ b \in connected
           /\ OwnsTracking(b)
           /\ HandleRecalibrate(a) \/ HandleDisconnect(a))
          => tracker' = tracker]_vars


(***************************************************************************)
(* C21: when a session connects, the tracking state is the empty state (no *)
(* stored box, inactive, frames_since_detection = 0), whatever the frames  *)
(* and events of earlier sessions did.                                     *)
(***************************************************************************)
C21_ConnectStartsEmpty ==
    [][\A s \in Sessions : HandleConnect(s) => tracker' = EmptyTracker]_vars


(***************************************************************************)
(* C22: the two windows of the logger never hold more than window_size     *)
(* samples; a successful end_frame appends its sample at the end and, when *)
(* the window was full, drops the oldest sample, so that the window is the *)
(* latest window_size samples in arrival order; any other step leaves a    *)
(* window as it is or, in reset(), empties it.                             *)
(***************************************************************************)
C22_WindowIsLatestSamples ==
    /\ [](/\ Len(logger.processing_times) <= logger.window_size
          /\ Len(logger.frame_times) <= logger.window_size)
    /\ [][LET n == logger.window_size
              pt == Append(logger.processing_times, now' - logger.start_time)
              ft == Append(logger.frame_times, now' - logger.last_frame_time)
          IN  /\ logger'.window_size = n
              /\ IF logger'.frame_count = logger.frame_count + 1
                 THEN /\ logger'.processing_times =
                            SubSeq(pt, Max2(1, Len(pt) - n + 1), Len(pt))
                      /\ logger'.frame_times =
                            SubSeq(ft, Max2(1, Len(ft) - n + 1), Len(ft))
                 ELSE /\ logger'.processing_times \in
                            {logger.processing_times, <<>>}
                      /\ logger'.frame_times \in {logger.frame_times, <<>>}]_vars

\* A window of two samples was full when a third success was recorded: the
\* older of the two samples is gone, the younger one is now the first and
\* the new sample is the last.
C22_Witness ==
    /\ logger.window_size = 2
    /\ logger.frame_count = 3
    /\ Len(logger.processing_times) = 2
    /\ logger.processing_times[1] = 2000
    /\ logger.processing_times[2] <= MaxTime
    /\ logger.frame_times[1] = 10000
    /\ logger.frame_times[2] <= MaxTime


(***************************************************************************)
(* C23: the bounding box of a frame that reaches face_model.predict,       *)
(* freshly detected or reused by tracking, satisfies                       *)
(* 0 <= x1 < x2 < frame width and 0 <= y1 < y2 < frame height for the      *)
(* shape of that frame.                                                    *)
(***************************************************************************)
C23_PredictedBoxInsideFrame ==
    [][\A f \in Frames :
          (InferStep(f) /\ fr'[f].pred) =>
             LET b == fr[f].bbox
                 z == fr[f].size
             IN  /\ 0 <= b[1] /\ b[1] < b[3] /\ b[3] < z[1]
                 /\ 0 <= b[2] /\ b[2] < b[4] /\ b[4] < z[2]]_vars


(***************************************************************************)
(* C24: detect_face skips the detector and returns the stored box iff      *)
(* tracking is enabled, the tracker is active with a stored box, and that  *)
(* box lies within [0, width) x [0, height) of the current frame; when the *)
(* stored box is not within these bounds the detector runs on this frame   *)
(* and the tracker is afterwards inactive or holds the box just detected.  *)
(***************************************************************************)
C24_ReuseIffBoxInsideFrame ==
    [][\A f \in Frames :
          DetectStep(f) =>
             LET b == tracker.last_bbox
                 z == fr[f].size
                 tracking == /\ config.enable_tracking
                             /\ tracker.tracking_active
                             /\ b # NoBox
                 inside == /\ 0 <= b[1] /\ 0 <= b[2]
                           /\ b[3] < z[1] /\ b[4] < z[2]
             IN  /\ ~fr'[f].det <=> (tracking /\ inside)
                 /\ ~fr'[f].det => fr'[f].bbox = b
                 /\ (tracking /\ ~inside) =>
                       /\ fr'[f].det
                       /\ \/ ~tracker'.tracking_active
                          \/ /\ tracker'.last_bbox = fr'[f].bbox
                             /\ tracker'.frames_since_detection = 0]_vars


(***************************************************************************)
(* C25: with tracking enabled and redetect interval R, the stored box is   *)
(* reused for at most R consecutive processed frames before process_frame  *)
(* resets the tracker and runs the detector: frames_since_detection never  *)
(* exceeds R, and a frame is never served by reuse when the R frames       *)
(* before it were.                                                         *)
(***************************************************************************)
C25_ReuseBoundedByInterval ==
    /\ [](config.enable_tracking =>
             tracker.frames_since_detection <= config.redetect_interval)
    /\ [][\A f \in Frames :
             (DetectStep(f) /\ ~fr'[f].det) =>
                tracker.frames_since_detection < config.redetect_interval]_vars


(***************************************************************************)
(* C26: the end_frame call that completes a processed frame is paired with *)
(* the start_frame call made for that frame: the start time it reads is    *)
(* the one its own start_frame wrote, whatever start_frame and end_frame   *)
(* calls of other frames ran in between; it records exactly one sample,    *)
(* and the processing time of a success is the time since that start.      *)
(***************************************************************************)
C26_EndPairedWithOwnStart ==
    [][\A f \in Frames :
          InferStep(f) =>
             /\ logger.start_time = fr[f].t0
             /\ logger'.frame_count + logger'.dropped_frames
                   = logger.frame_count + logger.dropped_frames + 1
             /\ logger'.frame_count # logger.frame_count =>
                   LastEvent(logger'.processing_times) = now' - fr[f].t0]_vars


\* An end_frame call that passes its first test completes in this step.
EndFrameStep == logger.start_time # NoTime /\ logger'.start_time = NoTime

(***************************************************************************)
(* C27: an end_frame call writes the periodic log line iff it records a    *)
(* success that brings frame_count to a multiple of log_interval; a call   *)
(* with success = False writes no log line.                                *)
(***************************************************************************)
C27_LogLineAtKthSuccessOnly ==
    [][EndFrameStep =>
          (logger'.log_line <=>
              /\ logger'.frame_count = logger.frame_count + 1
              /\ logger'.frame_count % logger.log_interval = 0)]_vars


(***************************************************************************)
(* The tracking scenario: one client, one worker, tracking enabled.        *)
(* handle_recalibrate runs in its own thread (async_mode = 'threading'),   *)
(* so the three assignments of reset_tracking interleave with the          *)
(* statements that detect_face and _track_face execute for the frame of    *)
(* the worker.  Each read and each write of an attribute of face_detector  *)
(* is one step; resetting holds the position of the reset_tracking call.   *)
(***************************************************************************)
ResetTrackingStatements == 1..3

\* The k-th statement of reset_tracking.
ResetTrackingStatement(t, k) ==
    CASE k = 1 -> [t EXCEPT !.last_bbox = NoBox]
      [] k = 2 -> [t EXCEPT !.tracking_active = FALSE]
      [] k = 3 -> [t EXCEPT !.frames_since_detection = 0]

\* handle_recalibrate: the first statement of reset_tracking.
RecalibrateBegin(s) ==
    /\ s \in connected
    /\ resetting = NotResetting
    /\ tracker' = ResetTrackingStatement(tracker, 1)
    /\ resetting' = [pc |-> 2]
    /\ UNCHANGED <<config, connected, frame_counter, fr, queue, logger, now,
                   outbox, reply>>

\* The next statement of the reset_tracking call in progress.
RecalibrateContinue ==
    /\ resetting # NotResetting
    /\ tracker' = ResetTrackingStatement(tracker, resetting.pc)
    /\ resetting' = IF resetting.pc + 1 \in ResetTrackingStatements
                    THEN [resetting EXCEPT !.pc = @ + 1]
                    ELSE NotResetting
    /\ UNCHANGED <<config, connected, frame_counter, fr, queue, logger, now,
                   outbox, reply>>

\* detect_face, line 62: the test that selects the tracking branch.
DetectEnter(f) ==
    /\ fr[f].pc = "detect"
    /\ fr' = [fr EXCEPT ![f].pc =
                IF /\ config.enable_tracking
                   /\ tracker.tracking_active
                   /\ tracker.last_bbox # NoBox
                THEN "track" ELSE "mtcnn"]
    /\ UNCHANGED <<config, connected, frame_counter, queue, tracker, logger,
                   now, outbox, reply, resetting>>

\* _track_face, lines 127-128: if self.last_bbox is None: return None
TrackCheck(f) ==
    /\ fr[f].pc = "track"
    /\ fr' = [fr EXCEPT ![f].pc =
                IF tracker.last_bbox = NoBox THEN "mtcnn" ELSE "unpack"]
    /\ UNCHANGED <<config, connected, frame_counter, queue, tracker, logger,
                   now, outbox, reply, resetting>>

\* _track_face, line 134: x1, y1, x2, y2 = self.last_bbox.  Unpacking None
\* raises TypeError, which process_frame catches.
TrackUnpack(f) ==
    /\ fr[f].pc = "unpack"
    /\ fr' = IF tracker.last_bbox = NoBox
             THEN [fr EXCEPT ![f].pc = "raised"]
             ELSE [fr EXCEPT ![f].pc = "validate", ![f].bbox = tracker.last_bbox]
    /\ UNCHANGED <<config, connected, frame_counter, queue, tracker, logger,
                   now, outbox, reply, resetting>>

\* _track_face, lines 137-141: the unpacked coordinates are tested against
\* the frame shape and self.last_bbox is read once more for the return
\* value; detect_face, line 66, sends a None to the full detection.
TrackReturn(f) ==
    /\ fr[f].pc = "validate"
    /\ fr' = IF TrackFace(fr[f].bbox, fr[f].size) = NoBox
                \/ tracker.last_bbox = NoBox
             THEN [fr EXCEPT ![f].pc = "mtcnn", ![f].bbox = NoBox]
             ELSE [fr EXCEPT ![f].pc = "count", ![f].bbox = tracker.last_bbox]
    /\ UNCHANGED <<config, connected, frame_counter, queue, tracker, logger,
                   now, outbox, reply, resetting>>

\* detect_face, lines 67-68: self.frames_since_detection += 1; return bbox
TrackCount(f) ==
    /\ fr[f].pc = "count"
    /\ tracker' = [tracker EXCEPT !.frames_since_detection = @ + 1]
    /\ fr' = [fr EXCEPT ![f].pc = "infer"]
    /\ UNCHANGED <<config, connected, frame_counter, queue, logger, now, outbox,
                   reply, resetting>>

\* detect_face, line 71: bbox = self._detect_with_mtcnn(frame)
Mtcnn(f, raw) ==
    /\ fr[f].pc = "mtcnn"
    /\ LET bbox == DetectWithMtcnn(raw, fr[f].size)
       IN  fr' = [fr EXCEPT ![f].det = TRUE, ![f].bbox = bbox,
                            ![f].pc = IF bbox # NoBox THEN "store_bbox"
                                      ELSE "deactivate"]
    /\ UNCHANGED <<config, connected, frame_counter, queue, tracker, logger,
                   now, outbox, reply, resetting>>

\* detect_face, lines 73-78: one assignment of the branch taken.
Store(f) ==
    /\ fr[f].pc \in {"store_bbox", "store_active", "store_count", "deactivate"}
    /\ tracker' =
          CASE fr[f].pc = "store_bbox" -> [tracker EXCEPT !.last_bbox = fr[f].bbox]
            [] fr[f].pc = "store_active" -> [tracker EXCEPT !.tracking_active = TRUE]
            [] fr[f].pc = "store_count" ->
                  [tracker EXCEPT !.frames_since_detection = 0]
            [] fr[f].pc = "deactivate" -> [tracker EXCEPT !.tracking_active = FALSE]
    /\ fr' = [fr EXCEPT ![f].pc =
                CASE fr[f].pc = "store_bbox" -> "store_active"
                  [] fr[f].pc = "store_active" -> "store_count"
                  [] OTHER -> "infer"]
    /\ UNCHANGED <<config, connected, frame_counter, queue, logger, now, outbox,
                   reply, resetting>>

\* process_frame, lines 267-270: the except branch.
ProcessRaised(f) ==
    /\ fr[f].pc = "raised"
    /\ outbox' = Append(outbox, Event("error", f))
    /\ PerfEndFrame(FALSE)
    /\ fr' = Finished(f, FALSE)
    /\ UNCHANGED <<config, connected, frame_counter, queue, tracker, reply,
                   resetting>>

InitTrack ==
    /\ Init
    /\ config = [frame_skip |-> 1, thread_pool_size |-> 1,
                 enable_tracking |-> TRUE, redetect_interval |-> MaxInterval]

NextTrack ==
    \/ HandleConnect(1)
    \/ RecalibrateBegin(1)
    \/ RecalibrateContinue
    \/ \E f \in Frames : HandleFrameStart(1, f)
    \/ \E f \in Frames, z \in Sizes : HandleFrameBody(f, "image", z)
    \/ WorkerTake
    \/ \E f \in Frames : ProcessRedetect(f)
    \/ \E f \in Frames : DetectEnter(f)
    \/ \E f \in Frames : TrackCheck(f)
    \/ \E f \in Frames : TrackUnpack(f)
    \/ \E f \in Frames : TrackReturn(f)
    \/ \E f \in Frames : TrackCount(f)
    \/ \E f \in Frames, raw \in RawBoxes \cup {NoBox} : Mtcnn(f, raw)
    \/ \E f \in Frames : Store(f)
    \/ \E f \in Frames : ProcessRaised(f)
    \/ \E f \in Frames, mesh \in BOOLEAN : ProcessInfer(f, mesh)

SpecTrack == InitTrack /\ [][NextTrack]_vars

(***************************************************************************)
(* C28: in every state of the tracker, the states between two statements   *)
(* of a reset_tracking call that runs while a frame is processed included, *)
(* tracking_active implies that a box is stored, and no frame ends in the  *)
(* except branch of process_frame because _track_face met a missing box.   *)
(***************************************************************************)
C28_ActiveImpliesBox ==
    /\ tracker.tracking_active => tracker.last_bbox # NoBox
    /\ \A f \in Frames : fr[f].pc # "raised"


(***************************************************************************)
(* The pool under fair scheduling: one client, thread_pool_size = MaxPool, *)
(* every frame admitted, tracking enabled.  The worker threads of the      *)
(* ThreadPoolExecutor are operating-system threads: an idle worker takes   *)
(* queued work, and a worker that runs process_frame goes on to its next   *)
(* statement, the calls of the detector and of the model returning.  The   *)
(* client is under no obligation to send anything.                         *)
(***************************************************************************)
InitLive ==
    /\ Init
    /\ config = [frame_skip |-> 1, thread_pool_size |-> MaxPool,
                 enable_tracking |-> TRUE, redetect_interval |-> 1]

FairPool ==
    /\ WF_vars(WorkerTake)
    /\ \A f \in Frames :
          /\ WF_vars(ProcessRedetect(f))
          /\ WF_vars(\E raw \in RawBoxes \cup {NoBox} : ProcessDetect(f, raw))
          /\ WF_vars(\E mesh \in BOOLEAN : ProcessInfer(f, mesh))

\* The client connects, sends frames and recalibrates as it likes.
NextLive ==
    \/ HandleConnect(1)
    \/ HandleRecalibrate(1)
    \/ \E f \in Frames : HandleFrameStart(1, f)
    \/ \E f \in Frames, p \in {"image", "undecodable", "invalid"}, z \in Sizes :
            HandleFrameBody(f, p, z)
    \/ WorkerTake
    \/ \E f \in Frames : ProcessRedetect(f)
    \/ \E f \in Frames, raw \in RawBoxes \cup {NoBox} : ProcessDetect(f, raw)
    \/ \E f \in Frames, mesh \in BOOLEAN : ProcessInfer(f, mesh)

SpecLive == InitLive /\ [][NextLive]_vars /\ FairPool

(***************************************************************************)
(* C29: under fair scheduling of the pool, every frame submitted to it     *)
(* eventually completes, with its outcome event emitted and its end_frame  *)
(* call made, and from some point on no frame is queued or running.        *)
(***************************************************************************)
C29_SubmittedFramesComplete ==
    /\ \A f \in Frames :
          (fr[f].pc \in InFlightPcs) ~> (fr[f].pc = "done" /\ EventsOf(f) # {})
    /\ <>[](InFlight = {} /\ queue = <<>>)

\* Every frame went through the pool and has its outcome; the pool is idle.
C29_Witness ==
    /\ \A f \in Frames : fr[f].pc = "done" /\ EventsOf(f) # {}
    /\ Len(outbox) = MaxFrames
    /\ InFlight = {} /\ queue = <<>>

=============================================================================
